---- MODULE Spec2Model ----
(***************************************************************************)
(* news-aggregator.cc: the concurrent crawl (processAllFeeds, feedtoTokens, *)
(* articletoTokens) and the query loop that follows it.                     *)
(*                                                                         *)
(* One main thread, one thread per feed, one thread per article.  Each      *)
(* thread's position is a program counter named after the statement it is   *)
(* about to execute.  The results of the three external parse calls         *)
(* (feedList.parse, rssfeed.parse, htmlDoc.parse) are inputs drawn when the *)
(* call returns.                                                            *)
(*                                                                         *)
(* A line written to cout between oslock and osunlock is one step; the     *)
(* begin line of a feed, written without them, is one step per write.      *)
(* Spec takes the last signal of an article thread and the end of the       *)
(* thread as one step; ThreadSpec takes them apart.                         *)
(***************************************************************************)
EXTENDS Integers, Sequences, FiniteSets, TLC

(***************************************************************************)
(* Size of the model.  The three pool capacities are 8, 12 and 64 in the    *)
(* source (lines 34-36); they are scaled down here, keeping their order,    *)
(* so that every pool is exhausted by the feeds and articles the model can  *)
(* schedule.  MaxArticles bounds the articles of the whole crawl, all feeds *)
(* together.                                                                *)
(***************************************************************************)
kMaxfeed == 1
kMaxTperS == 1
kMaxthread == 2
MaxFeeds == 2
MaxArticles == 3
NumHosts == 3
NumPaths == 1

Feeds == 1..MaxFeeds
Slots == 1..MaxArticles
Hosts == 1..NumHosts
Paths == 1..NumPaths
Tokens == 1..2

\* An article URL is <<host, path>>; an Article is identified by its URL.
Urls == Hosts \X Paths
Threads == Feeds \X Slots

\* Every sequence of at most MaxArticles URLs: what rssfeed.getArticles() can hold.
RECURSIVE SeqsUpTo(_, _)
SeqsUpTo(S, n) ==
  IF n = 0 THEN {<< >>}
  ELSE LET shorter == SeqsUpTo(S, n - 1)
       IN  shorter \cup {Append(s, x) : s \in {t \in shorter : Len(t) = n - 1}, x \in S}

ArticleLists == SeqsUpTo(Urls, MaxArticles)

\* getURLServer: the authority component of the URL.
getURLServer(url) == url[1]

\* htmlDoc.getTokens(): the token stream of the document at url.
getTokens(url) == IF url[1] = 1 THEN <<1, 1, 2>> ELSE <<2>>

NoPool == -1      \* serverlocks has no semaphore for the host (nullptr)
NoThread == <<0, 0>>
NoExit == -1      \* the process has not ended

VARIABLES
  mainpc,          \* position of the main thread
  nfeeds,          \* allfeeds.size(), set when feedList.parse returns
  mi,              \* number of feed threads main has created
  fpc,             \* position of each feed thread
  articles,        \* rssfeed.getArticles() of each feed thread
  fi,              \* number of articles each feed thread has passed in its loop
  apc,             \* position of each article thread
  feedsAllowed,    \* permits available in feedsAllowed
  threadsAllowed,  \* permits available in threadsAllowed
  serverlocks,     \* host -> permits available in its semaphore, or NoPool
  servermaplock,   \* feed holding servermaplock, or 0
  rssindexlock,    \* article thread holding rssindexlock, or NoThread
  index,           \* token -> url -> occurrence count
  addCalls,        \* history: number of index.add calls made by each article thread
  fetch,           \* history: outcome of htmlDoc.parse() in each article thread
  response,        \* the last line read by queryIndex, trimmed
  total,           \* matches.size() reported for the last term looked up
  shown,           \* the entries listed for it: <<rank, url, count>>
  coutLine,        \* tasks whose writes make up the unfinished last line of cout
  garbled,         \* the last finished line of cout holds writes of several tasks
  exitStatus,      \* the status the process ended with, or NoExit
  listFailed       \* cerr holds the message of lines 139-141 about the feed list

vars == <<mainpc, nfeeds, mi, fpc, articles, fi, apc, feedsAllowed, threadsAllowed,
          serverlocks, servermaplock, rssindexlock, index, addCalls, fetch, response,
          total, shown, coutLine, garbled, exitStatus, listFailed>>

queryVars == <<response, total, shown>>
endVars == <<exitStatus, listFailed>>
mainVars == <<mainpc, nfeeds, mi, queryVars, endVars>>
feedVars == <<fpc, articles, fi>>
poolVars == <<feedsAllowed, threadsAllowed, serverlocks>>
lockVars == <<servermaplock, rssindexlock>>
indexVars == <<index, addCalls, fetch>>
outVars == <<coutLine, garbled>>

Init ==
  /\ mainpc = "parseList"
  /\ nfeeds = 0
  /\ mi = 0
  /\ fpc = [f \in Feeds |-> "none"]
  /\ articles = [f \in Feeds |-> << >>]
  /\ fi = [f \in Feeds |-> 0]
  /\ apc = [t \in Threads |-> "none"]
  /\ feedsAllowed = kMaxfeed
  /\ threadsAllowed = kMaxthread
  /\ serverlocks = [h \in Hosts |-> NoPool]
  /\ servermaplock = 0
  /\ rssindexlock = NoThread
  /\ index = [k \in Tokens |-> [u \in Urls |-> 0]]
  /\ addCalls = [t \in Threads |-> 0]
  /\ fetch = [t \in Threads |-> "none"]
  /\ response = << >>
  /\ total = 0
  /\ shown = << >>
  /\ coutLine = {}
  /\ garbled = FALSE
  /\ exitStatus = NoExit
  /\ listFailed = FALSE

(***************************************************************************)
(* Helpers                                                                 *)
(***************************************************************************)
FeedFinished(f) == fpc[f] \in {"done", "aborted"}
ArticleFinished(t) == apc[t] \in {"done", "aborted"}

\* The article the thread <<f, i>> was created for, and the host of its pool.
ArticleOf(t) == articles[t[1]][t[2]]
HostOf(t) == getURLServer(ArticleOf(t))

\* Number of articles the feeds parsed so far advertise, all feeds together.
RECURSIVE TotalLen(_, _)
TotalLen(arts, n) == IF n = 0 THEN 0 ELSE Len(arts[n]) + TotalLen(arts, n - 1)
TotalArticles == TotalLen(articles, MaxFeeds)

\* Where a feed thread goes after passing n articles of its loop (lines 116, 127).
LoopHead(f, arts, n) == IF n < Len(arts) THEN "maplock" ELSE "join"

\* Number of occurrences of token k in the sequence toks.
RECURSIVE Occurrences(_, _)
Occurrences(k, toks) ==
  IF toks = << >> THEN 0
  ELSE (IF Head(toks) = k THEN 1 ELSE 0) + Occurrences(k, Tail(toks))

\* RSSIndex::add: every token of the sequence increments the count of
\* (token, article), the article being identified by its URL.
IndexAdd(idx, url, toks) ==
  [k \in Tokens |-> [u \in Urls |->
     IF u = url THEN idx[k][u] + Occurrences(k, toks) ELSE idx[k][u]]]

\* A task that writes to cout: feed thread f is <<f, 0>>, article thread <<f, i>>.
FeedTask(f) == <<f, 0>>

\* cout << x by task w with the line not finished: w joins the line's writers.
Put(line, w) == line \cup {w}

\* Whether a line that task w finishes with endl, found with the writers in line,
\* holds writes of another task.
Mixed(line, w) == line \ {w} # {}

(***************************************************************************)
(* processAllFeeds and main                                                *)
(***************************************************************************)
\* line 137: feedList.parse() returns; allfeeds holds n feeds.
ParseListOk(n) ==
  /\ mainpc = "parseList"
  /\ nfeeds' = n
  /\ mainpc' = IF n > 0 THEN "feedWait" ELSE "join"
  /\ UNCHANGED <<mi, queryVars, feedVars, apc, poolVars, lockVars, indexVars,
                 outVars, endVars>>

\* ParseListFail as it would be without the exit(0) of line 142: allfeeds is
\* empty, both loops of processAllFeeds end at once and main goes on.
ParseListFailGoesOn ==
  /\ mainpc = "parseList"
  /\ listFailed' = TRUE
  /\ mainpc' = "join"
  /\ UNCHANGED <<nfeeds, mi, queryVars, feedVars, apc, poolVars, lockVars,
                 indexVars, outVars, exitStatus>>

\* lines 138-142: feedList.parse() throws; the two lines written to cerr;
\* exit(0) ends the process.
ParseListFail ==
  /\ mainpc = "parseList"
  /\ listFailed' = TRUE
  /\ mainpc' = "exited"
  /\ exitStatus' = 0
  /\ UNCHANGED <<nfeeds, mi, queryVars, feedVars, apc, poolVars, lockVars,
                 indexVars, outVars>>

\* MainFeedWait as it would be without the wait on feedsAllowed.
MainFeedWaitNoWait ==
  /\ mainpc = "feedWait"
  /\ mainpc' = "feedSpawn"
  /\ UNCHANGED <<nfeeds, mi, queryVars, feedVars, apc, poolVars, lockVars,
                 indexVars, outVars, endVars>>

\* line 147: feedsAllowed.wait().
MainFeedWait ==
  /\ mainpc = "feedWait"
  /\ feedsAllowed > 0
  /\ feedsAllowed' = feedsAllowed - 1
  /\ mainpc' = "feedSpawn"
  /\ UNCHANGED <<nfeeds, mi, queryVars, feedVars, apc, threadsAllowed,
                 serverlocks, lockVars, indexVars, outVars, endVars>>

\* line 148: thread(feedtoTokens, feed).
MainFeedSpawn ==
  /\ mainpc = "feedSpawn"
  /\ mi' = mi + 1
  /\ fpc' = [fpc EXCEPT ![mi + 1] = "begin"]
  /\ mainpc' = IF mi + 1 < nfeeds THEN "feedWait" ELSE "join"
  /\ UNCHANGED <<nfeeds, queryVars, articles, fi, apc, poolVars, lockVars,
                 indexVars, outVars, endVars>>

\* MainJoin as it would be if main did not join the feed threads.
MainJoinNoWait ==
  /\ mainpc = "join"
  /\ mainpc' = "prompt"
  /\ UNCHANGED <<nfeeds, mi, queryVars, feedVars, apc, poolVars, lockVars,
                 indexVars, outVars, endVars>>

\* line 150: join every feed thread; processAllFeeds returns, main reaches queryIndex.
MainJoin ==
  /\ mainpc = "join"
  /\ \A f \in 1..nfeeds : FeedFinished(f)
  /\ mainpc' = "prompt"
  /\ UNCHANGED <<nfeeds, mi, queryVars, feedVars, apc, poolVars, lockVars,
                 indexVars, outVars, endVars>>

(***************************************************************************)
(* feedtoTokens                                                            *)
(***************************************************************************)
\* line 102, first write: cout << "Begin full download of feed URI: ", no oslock.
FeedBegin(f) ==
  /\ fpc[f] = "begin"
  /\ coutLine' = Put(coutLine, FeedTask(f))
  /\ fpc' = [fpc EXCEPT ![f] = "beginUrl"]
  /\ UNCHANGED <<mainVars, articles, fi, apc, poolVars, lockVars, indexVars,
                 garbled>>

\* lines 102-105, the other writes: << feed.first << endl; then into rssfeed.parse().
FeedBeginUrl(f) ==
  /\ fpc[f] = "beginUrl"
  /\ garbled' = Mixed(coutLine, FeedTask(f))
  /\ coutLine' = {}
  /\ fpc' = [fpc EXCEPT ![f] = "parse"]
  /\ UNCHANGED <<mainVars, articles, fi, apc, poolVars, lockVars, indexVars>>

\* line 105: rssfeed.parse() returns with the feed's articles.
FeedParseOk(f, arts) ==
  /\ fpc[f] = "parse"
  /\ TotalArticles + Len(arts) <= MaxArticles
  /\ articles' = [articles EXCEPT ![f] = arts]
  /\ fpc' = [fpc EXCEPT ![f] = "sigOk"]
  /\ UNCHANGED <<mainVars, fi, apc, poolVars, lockVars, indexVars, outVars>>

\* lines 106-109: rssfeed.parse() throws.
FeedParseFail(f) ==
  /\ fpc[f] = "parse"
  /\ fpc' = [fpc EXCEPT ![f] = "sigFail"]
  /\ UNCHANGED <<mainVars, articles, fi, apc, poolVars, lockVars, indexVars,
                 outVars>>

\* FeedSignalFail as it would be without the return of line 111.
FeedSignalFailFallThrough(f) ==
  /\ fpc[f] = "sigFail"
  /\ feedsAllowed' = feedsAllowed + 1
  /\ fpc' = [fpc EXCEPT ![f] = "sigOk"]
  /\ UNCHANGED <<mainVars, articles, fi, apc, threadsAllowed, serverlocks,
                 lockVars, indexVars, outVars>>

\* lines 110-111: feedsAllowed.signal(); return.
FeedSignalFail(f) ==
  /\ fpc[f] = "sigFail"
  /\ feedsAllowed' = feedsAllowed + 1
  /\ fpc' = [fpc EXCEPT ![f] = "aborted"]
  /\ UNCHANGED <<mainVars, articles, fi, apc, threadsAllowed, serverlocks,
                 lockVars, indexVars, outVars>>

\* FeedSignalOk as it would be without the signal of line 113: the feed thread
\* keeps its feed permit through the article loop.
FeedSignalOkKeepsPermit(f) ==
  /\ fpc[f] = "sigOk"
  /\ fpc' = [fpc EXCEPT ![f] = LoopHead(f, articles[f], 0)]
  /\ UNCHANGED <<mainVars, articles, fi, apc, poolVars, lockVars, indexVars,
                 outVars>>

\* line 113: feedsAllowed.signal(); then the head of the article loop.
FeedSignalOk(f) ==
  /\ fpc[f] = "sigOk"
  /\ feedsAllowed' = feedsAllowed + 1
  /\ fpc' = [fpc EXCEPT ![f] = LoopHead(f, articles[f], 0)]
  /\ UNCHANGED <<mainVars, articles, fi, apc, threadsAllowed, serverlocks,
                 lockVars, indexVars, outVars>>

\* lines 117-118: servermaplock.lock().
FeedMapLock(f) ==
  /\ fpc[f] = "maplock"
  /\ servermaplock = 0
  /\ servermaplock' = f
  /\ fpc' = [fpc EXCEPT ![f] = "lookup"]
  /\ UNCHANGED <<mainVars, articles, fi, apc, poolVars, rssindexlock, indexVars,
                 outVars>>

\* FeedLookup as it would be without the test of line 120: a new semaphore for
\* every article.
FeedLookupAlwaysCreates(f) ==
  /\ fpc[f] = "lookup"
  /\ LET h == getURLServer(articles[f][fi[f] + 1])
     IN  serverlocks' = [serverlocks EXCEPT ![h] = kMaxTperS]
  /\ servermaplock' = 0
  /\ fpc' = [fpc EXCEPT ![f] = "hostWait"]
  /\ UNCHANGED <<mainVars, articles, fi, apc, feedsAllowed, threadsAllowed,
                 rssindexlock, indexVars, outVars>>

\* FeedLookup as it would be without the unlock of line 123.
FeedLookupKeepsLock(f) ==
  /\ fpc[f] = "lookup"
  /\ LET h == getURLServer(articles[f][fi[f] + 1])
     IN  serverlocks' = IF serverlocks[h] = NoPool
                        THEN [serverlocks EXCEPT ![h] = kMaxTperS]
                        ELSE serverlocks
  /\ fpc' = [fpc EXCEPT ![f] = "hostWait"]
  /\ UNCHANGED <<mainVars, articles, fi, apc, feedsAllowed, threadsAllowed,
                 lockVars, indexVars, outVars>>

\* lines 119-123: serverlocks[serverurl], created with kMaxTperS permits when null;
\* servermaplock.unlock().
FeedLookup(f) ==
  /\ fpc[f] = "lookup"
  /\ LET h == getURLServer(articles[f][fi[f] + 1])
     IN  serverlocks' = IF serverlocks[h] = NoPool
                        THEN [serverlocks EXCEPT ![h] = kMaxTperS]
                        ELSE serverlocks
  /\ servermaplock' = 0
  /\ fpc' = [fpc EXCEPT ![f] = "hostWait"]
  /\ UNCHANGED <<mainVars, articles, fi, apc, feedsAllowed, threadsAllowed,
                 rssindexlock, indexVars, outVars>>

\* FeedHostWait as it would be without the wait on the host's semaphore.
FeedHostWaitNoWait(f) ==
  /\ fpc[f] = "hostWait"
  /\ fpc' = [fpc EXCEPT ![f] = "spawn"]
  /\ UNCHANGED <<mainVars, articles, fi, apc, poolVars, lockVars, indexVars,
                 outVars>>

\* FeedHostWait as it would be with the wait made on threadsAllowed in place of
\* the host's semaphore.
FeedHostWaitWrongPool(f) ==
  /\ fpc[f] = "hostWait"
  /\ threadsAllowed > 0
  /\ threadsAllowed' = threadsAllowed - 1
  /\ fpc' = [fpc EXCEPT ![f] = "spawn"]
  /\ UNCHANGED <<mainVars, articles, fi, apc, feedsAllowed, serverlocks,
                 lockVars, indexVars, outVars>>

\* line 124: up->wait().
FeedHostWait(f) ==
  /\ fpc[f] = "hostWait"
  /\ LET h == getURLServer(articles[f][fi[f] + 1])
     IN  /\ serverlocks[h] > 0
         /\ serverlocks' = [serverlocks EXCEPT ![h] = @ - 1]
  /\ fpc' = [fpc EXCEPT ![f] = "spawn"]
  /\ UNCHANGED <<mainVars, articles, fi, apc, feedsAllowed, threadsAllowed,
                 lockVars, indexVars, outVars>>

\* line 125: thread(articletoTokens, article, ref(up)); then the loop head.
FeedSpawn(f) ==
  /\ fpc[f] = "spawn"
  /\ apc' = [apc EXCEPT ![<<f, fi[f] + 1>>] = "wait"]
  /\ fi' = [fi EXCEPT ![f] = @ + 1]
  /\ fpc' = [fpc EXCEPT ![f] = LoopHead(f, articles[f], fi[f] + 1)]
  /\ UNCHANGED <<mainVars, articles, poolVars, lockVars, indexVars, outVars>>

\* FeedJoin as it would be if the feed thread did not join its article threads.
FeedJoinNoWait(f) ==
  /\ fpc[f] = "join"
  /\ garbled' = Mixed(coutLine, FeedTask(f))
  /\ coutLine' = {}
  /\ fpc' = [fpc EXCEPT ![f] = "done"]
  /\ UNCHANGED <<mainVars, articles, fi, apc, poolVars, lockVars, indexVars>>

\* lines 127-130: join every article thread; the end line, written between oslock
\* and osunlock; return.
FeedJoin(f) ==
  /\ fpc[f] = "join"
  /\ \A i \in 1..fi[f] : ArticleFinished(<<f, i>>)
  /\ garbled' = Mixed(coutLine, FeedTask(f))
  /\ coutLine' = {}
  /\ fpc' = [fpc EXCEPT ![f] = "done"]
  /\ UNCHANGED <<mainVars, articles, fi, apc, poolVars, lockVars, indexVars>>

(***************************************************************************)
(* articletoTokens                                                         *)
(***************************************************************************)
\* ArtWait as it would be without the wait on threadsAllowed.
ArtWaitNoWait(t) ==
  /\ apc[t] = "wait"
  /\ apc' = [apc EXCEPT ![t] = "parse"]
  /\ UNCHANGED <<mainVars, feedVars, poolVars, lockVars, indexVars, outVars>>

\* line 70: threadsAllowed.wait(); lines 71-79: the "Parsing" line and the "[at"
\* line, each written between oslock and osunlock; then into htmlDoc.parse().
ArtWait(t) ==
  /\ apc[t] = "wait"
  /\ threadsAllowed > 0
  /\ threadsAllowed' = threadsAllowed - 1
  /\ garbled' = Mixed(coutLine, t)
  /\ coutLine' = {}
  /\ apc' = [apc EXCEPT ![t] = "parse"]
  /\ UNCHANGED <<mainVars, feedVars, feedsAllowed, serverlocks, lockVars,
                 indexVars>>

\* line 79: htmlDoc.parse() returns.
ArtParseOk(t) ==
  /\ apc[t] = "parse"
  /\ apc' = [apc EXCEPT ![t] = "lock"]
  /\ fetch' = [fetch EXCEPT ![t] = "ok"]
  /\ UNCHANGED <<mainVars, feedVars, poolVars, lockVars, index, addCalls,
                 outVars>>

\* ArtParseFail as it would be if the exception were swallowed and the task went on.
ArtParseFailIgnored(t) ==
  /\ apc[t] = "parse"
  /\ apc' = [apc EXCEPT ![t] = "lock"]
  /\ fetch' = [fetch EXCEPT ![t] = "fail"]
  /\ UNCHANGED <<mainVars, feedVars, poolVars, lockVars, index, addCalls,
                 outVars>>

\* lines 80-83: htmlDoc.parse() throws.
ArtParseFail(t) ==
  /\ apc[t] = "parse"
  /\ apc' = [apc EXCEPT ![t] = "failSigT"]
  /\ fetch' = [fetch EXCEPT ![t] = "fail"]
  /\ UNCHANGED <<mainVars, feedVars, poolVars, lockVars, index, addCalls,
                 outVars>>

\* ArtFailSignalThreads as it would be without the signal of line 84.
ArtFailSignalThreadsLeak(t) ==
  /\ apc[t] = "failSigT"
  /\ apc' = [apc EXCEPT ![t] = "failSigH"]
  /\ UNCHANGED <<mainVars, feedVars, poolVars, lockVars, indexVars, outVars>>

\* line 84: threadsAllowed.signal() on the failure path.
ArtFailSignalThreads(t) ==
  /\ apc[t] = "failSigT"
  /\ threadsAllowed' = threadsAllowed + 1
  /\ apc' = [apc EXCEPT ![t] = "failSigH"]
  /\ UNCHANGED <<mainVars, feedVars, feedsAllowed, serverlocks, lockVars,
                 indexVars, outVars>>

\* ArtFailSignalHost as it would be without the return of line 86.
ArtFailSignalHostFallThrough(t) ==
  /\ apc[t] = "failSigH"
  /\ serverlocks' = [serverlocks EXCEPT ![HostOf(t)] = @ + 1]
  /\ apc' = [apc EXCEPT ![t] = "lock"]
  /\ UNCHANGED <<mainVars, feedVars, feedsAllowed, threadsAllowed, lockVars,
                 indexVars, outVars>>

\* lines 85-86: up->signal() on the failure path; return, the thread ends.
ArtFailSignalHost(t) ==
  /\ apc[t] = "failSigH"
  /\ serverlocks' = [serverlocks EXCEPT ![HostOf(t)] = @ + 1]
  /\ apc' = [apc EXCEPT ![t] = "aborted"]
  /\ UNCHANGED <<mainVars, feedVars, feedsAllowed, threadsAllowed, lockVars,
                 indexVars, outVars>>

\* ArtLock as it would be without the lock of line 89.
ArtLockNoLock(t) ==
  /\ apc[t] = "lock"
  /\ apc' = [apc EXCEPT ![t] = "add"]
  /\ UNCHANGED <<mainVars, feedVars, poolVars, lockVars, indexVars, outVars>>

\* line 89: rssindexlock.lock().
ArtLock(t) ==
  /\ apc[t] = "lock"
  /\ rssindexlock = NoThread
  /\ rssindexlock' = t
  /\ apc' = [apc EXCEPT ![t] = "add"]
  /\ UNCHANGED <<mainVars, feedVars, poolVars, servermaplock, indexVars,
                 outVars>>

\* lines 90-91: index.add(article, tokens); rssindexlock.unlock().
ArtAdd(t) ==
  /\ apc[t] = "add"
  /\ index' = IndexAdd(index, ArticleOf(t), getTokens(ArticleOf(t)))
  /\ addCalls' = [addCalls EXCEPT ![t] = @ + 1]
  /\ rssindexlock' = NoThread
  /\ apc' = [apc EXCEPT ![t] = "sigT"]
  /\ UNCHANGED <<mainVars, feedVars, poolVars, servermaplock, fetch, outVars>>

\* ArtSignalThreads as it would be without the signal of line 92.
ArtSignalThreadsLeak(t) ==
  /\ apc[t] = "sigT"
  /\ apc' = [apc EXCEPT ![t] = "sigH"]
  /\ UNCHANGED <<mainVars, feedVars, poolVars, lockVars, indexVars, outVars>>

\* line 92: threadsAllowed.signal().
ArtSignalThreads(t) ==
  /\ apc[t] = "sigT"
  /\ threadsAllowed' = threadsAllowed + 1
  /\ apc' = [apc EXCEPT ![t] = "sigH"]
  /\ UNCHANGED <<mainVars, feedVars, feedsAllowed, serverlocks, lockVars,
                 indexVars, outVars>>

\* ArtSignalHost as it would be without the signal of line 93.
ArtSignalHostLeak(t) ==
  /\ apc[t] = "sigH"
  /\ apc' = [apc EXCEPT ![t] = "done"]
  /\ UNCHANGED <<mainVars, feedVars, poolVars, lockVars, indexVars, outVars>>

\* ArtSignalHost as it would be with the signal of line 93 made twice.
ArtSignalHostTwice(t) ==
  /\ apc[t] = "sigH"
  /\ serverlocks' = [serverlocks EXCEPT ![HostOf(t)] = @ + 2]
  /\ apc' = [apc EXCEPT ![t] = "done"]
  /\ UNCHANGED <<mainVars, feedVars, feedsAllowed, threadsAllowed, lockVars,
                 indexVars, outVars>>

\* lines 93-94: up->signal(); the function returns and the thread ends.
ArtSignalHost(t) ==
  /\ apc[t] = "sigH"
  /\ serverlocks' = [serverlocks EXCEPT ![HostOf(t)] = @ + 1]
  /\ apc' = [apc EXCEPT ![t] = "done"]
  /\ UNCHANGED <<mainVars, feedVars, feedsAllowed, threadsAllowed, lockVars,
                 indexVars, outVars>>

(***************************************************************************)
(* The end of an article thread taken apart: the signal on the host's      *)
(* semaphore is one step, the return of the thread function another.       *)
(***************************************************************************)
\* line 93: up->signal(); the thread function has not returned yet.
ArtUpSignal(t) ==
  /\ apc[t] = "sigH"
  /\ serverlocks' = [serverlocks EXCEPT ![HostOf(t)] = @ + 1]
  /\ apc' = [apc EXCEPT ![t] = "ret"]
  /\ UNCHANGED <<mainVars, feedVars, feedsAllowed, threadsAllowed, lockVars,
                 indexVars, outVars>>

\* line 85: up->signal() on the failure path; the return of line 86 is to come.
ArtFailUpSignal(t) ==
  /\ apc[t] = "failSigH"
  /\ serverlocks' = [serverlocks EXCEPT ![HostOf(t)] = @ + 1]
  /\ apc' = [apc EXCEPT ![t] = "failRet"]
  /\ UNCHANGED <<mainVars, feedVars, feedsAllowed, threadsAllowed, lockVars,
                 indexVars, outVars>>

\* lines 86 and 94: the function returns, its locals (htmlDoc, tokens) are
\* destroyed and the thread ends; only now does a join of it return.
ArtReturn(t) ==
  /\ apc[t] \in {"ret", "failRet"}
  /\ apc' = [apc EXCEPT ![t] = IF apc[t] = "ret" THEN "done" ELSE "aborted"]
  /\ UNCHANGED <<mainVars, feedVars, poolVars, lockVars, indexVars, outVars>>

(***************************************************************************)
(* queryIndex                                                              *)
(***************************************************************************)
\* A line of input: at most MaxLine characters, 0 being a blank.
MaxLine == 2
Lines == SeqsUpTo({0} \cup Tokens, MaxLine)

\* trim: drop the blanks at both ends.
RECURSIVE trimLeft(_)
trimLeft(s) == IF s # << >> /\ Head(s) = 0 THEN trimLeft(Tail(s)) ELSE s
RECURSIVE trimRight(_)
trimRight(s) ==
  IF s # << >> /\ s[Len(s)] = 0 THEN trimRight(SubSeq(s, 1, Len(s) - 1)) ELSE s
trim(s) == trimRight(trimLeft(s))

\* A term is a word; the words of the documents are the one-character words
\* <<k>>, k a token. The count of the word term for url in idx.
CountOf(idx, term, url) == IF Len(term) = 1 THEN idx[term[1]][url] ELSE 0

\* The order of the sequence the index returns: the higher count first, and
\* among equal counts the smaller URL.
UrlBefore(u, v) == u[1] < v[1] \/ (u[1] = v[1] /\ u[2] < v[2])
RanksBefore(idx, term, u, v) ==
  \/ CountOf(idx, term, u) > CountOf(idx, term, v)
  \/ CountOf(idx, term, u) = CountOf(idx, term, v) /\ UrlBefore(u, v)

\* The urls of S in that order, each paired with its count.
RECURSIVE Ranked(_, _, _)
Ranked(idx, term, S) ==
  IF S = {} THEN << >>
  ELSE LET u == CHOOSE x \in S : \A y \in S \ {x} : RanksBefore(idx, term, x, y)
       IN  <<<<u, CountOf(idx, term, u)>>>> \o Ranked(idx, term, S \ {u})

\* RSSIndex::getMatchingArticles: every article the word occurs in, with the
\* number of occurrences.
getMatchingArticles(idx, term) ==
  Ranked(idx, term, {u \in Urls : CountOf(idx, term, u) > 0})

\* line 164: 15 in the source, scaled down so that a word of the model can
\* have more matches than are listed.
kMaxMatchesToShow == 2

\* ListMatches as it would be if the loop stopped one entry late.
RECURSIVE ListMatchesOneMore(_, _, _, _)
ListMatchesOneMore(matches, i, count, out) ==
  IF i > Len(matches) \/ count > kMaxMatchesToShow THEN out
  ELSE ListMatchesOneMore(matches, i + 1, count + 1,
                          Append(out, <<count + 1, matches[i][1], matches[i][2]>>))

\* lines 183-194: the loop over matches from its i-th element on, count entries
\* listed so far; every entry is listed with its rank count, its url and the
\* number of occurrences.
RECURSIVE ListMatches(_, _, _, _)
ListMatches(matches, i, count, out) ==
  IF i > Len(matches) \/ count = kMaxMatchesToShow THEN out
  ELSE ListMatches(matches, i + 1, count + 1,
                   Append(out, <<count + 1, matches[i][1], matches[i][2]>>))

\* lines 167-195: read a line; a non-empty term is looked up; the number of
\* matches is reported and the matches are listed, or none was found.
QueryTerm(line) ==
  /\ mainpc = "prompt"
  /\ trim(line) # << >>
  /\ response' = trim(line)
  /\ LET matches == getMatchingArticles(index, trim(line))
     IN  /\ total' = Len(matches)
         /\ shown' = ListMatches(matches, 1, 0, << >>)
  /\ UNCHANGED <<mainpc, nfeeds, mi, feedVars, apc, poolVars, lockVars,
                 indexVars, outVars, endVars>>

\* line 171: an empty response ends the loop; lines 219-220: main prints
\* "Exiting...." and returns 0.
QueryQuit(line) ==
  /\ mainpc = "prompt"
  /\ trim(line) = << >>
  /\ response' = trim(line)
  /\ mainpc' = "done"
  /\ exitStatus' = 0
  /\ UNCHANGED <<total, shown, nfeeds, mi, feedVars, apc, poolVars, lockVars,
                 indexVars, outVars, listFailed>>

Next ==
  \/ \E n \in 0..MaxFeeds : ParseListOk(n)
  \/ ParseListFail
  \/ MainFeedWait
  \/ MainFeedSpawn
  \/ MainJoin
  \/ \E f \in Feeds : FeedBegin(f)
  \/ \E f \in Feeds : FeedBeginUrl(f)
  \/ \E f \in Feeds, arts \in ArticleLists : FeedParseOk(f, arts)
  \/ \E f \in Feeds : FeedParseFail(f)
  \/ \E f \in Feeds : FeedSignalFail(f)
  \/ \E f \in Feeds : FeedSignalOk(f)
  \/ \E f \in Feeds : FeedMapLock(f)
  \/ \E f \in Feeds : FeedLookup(f)
  \/ \E f \in Feeds : FeedHostWait(f)
  \/ \E f \in Feeds : FeedSpawn(f)
  \/ \E f \in Feeds : FeedJoin(f)
  \/ \E t \in Threads : ArtWait(t)
  \/ \E t \in Threads : ArtParseOk(t)
  \/ \E t \in Threads : ArtParseFail(t)
  \/ \E t \in Threads : ArtFailSignalThreads(t)
  \/ \E t \in Threads : ArtFailSignalHost(t)
  \/ \E t \in Threads : ArtLock(t)
  \/ \E t \in Threads : ArtAdd(t)
  \/ \E t \in Threads : ArtSignalThreads(t)
  \/ \E t \in Threads : ArtSignalHost(t)
  \/ \E line \in Lines : QueryTerm(line)
  \/ \E line \in Lines : QueryQuit(line)

Spec == Init /\ [][Next]_vars

\* The steps of the crawl: every step but the reading of a line of user input.
CrawlNext ==
  /\ mainpc \notin {"prompt", "done"}
  /\ Next

\* Fair scheduling of the threads, every parse call returning.
FairSpec == Spec /\ WF_vars(CrawlNext)

\* The program with the end of every article thread taken apart.
ThreadNext ==
  \/ \E n \in 0..MaxFeeds : ParseListOk(n)
  \/ ParseListFail
  \/ MainFeedWait
  \/ MainFeedSpawn
  \/ MainJoin
  \/ \E f \in Feeds : FeedBegin(f)
  \/ \E f \in Feeds : FeedBeginUrl(f)
  \/ \E f \in Feeds, arts \in ArticleLists : FeedParseOk(f, arts)
  \/ \E f \in Feeds : FeedParseFail(f)
  \/ \E f \in Feeds : FeedSignalFail(f)
  \/ \E f \in Feeds : FeedSignalOk(f)
  \/ \E f \in Feeds : FeedMapLock(f)
  \/ \E f \in Feeds : FeedLookup(f)
  \/ \E f \in Feeds : FeedHostWait(f)
  \/ \E f \in Feeds : FeedSpawn(f)
  \/ \E f \in Feeds : FeedJoin(f)
  \/ \E t \in Threads : ArtWait(t)
  \/ \E t \in Threads : ArtParseOk(t)
  \/ \E t \in Threads : ArtParseFail(t)
  \/ \E t \in Threads : ArtFailSignalThreads(t)
  \/ \E t \in Threads : ArtFailUpSignal(t)
  \/ \E t \in Threads : ArtLock(t)
  \/ \E t \in Threads : ArtAdd(t)
  \/ \E t \in Threads : ArtSignalThreads(t)
  \/ \E t \in Threads : ArtUpSignal(t)
  \/ \E t \in Threads : ArtReturn(t)
  \/ \E line \in Lines : QueryTerm(line)
  \/ \E line \in Lines : QueryQuit(line)

ThreadSpec == Init /\ [][ThreadNext]_vars

(***************************************************************************)
(* Properties                                                              *)
(***************************************************************************)
\* Article threads inside htmlDoc.parse() for an article of host h.
InParse(h) == {t \in Threads : apc[t] = "parse" /\ HostOf(t) = h}

\* Article threads between threadsAllowed.wait() and threadsAllowed.signal().
InFlight ==
  {t \in Threads : apc[t] \in {"parse", "lock", "add", "sigT", "failSigT"}}

\* Feed threads started whose rssfeed.parse() has neither returned nor thrown.
FeedsParsing == {f \in Feeds : fpc[f] \in {"begin", "beginUrl", "parse"}}

\* Feed permits taken and not yet given back: by main for the thread it is about
\* to create, or by a feed thread that has not reached its signal.
FeedPermitsHeld ==
  Cardinality({f \in Feeds :
                 fpc[f] \in {"begin", "beginUrl", "parse", "sigOk", "sigFail"}})
    + (IF mainpc = "feedSpawn" THEN 1 ELSE 0)

CrawlRunning == mainpc \in {"feedWait", "feedSpawn", "join"}
QueryPhase == mainpc \in {"prompt", "done"}

\* C1: at any moment, for every host, at most kMaxTperS article threads are
\* inside htmlDoc.parse() for an article of that host.
C1_HostCap == \A h \in Hosts : Cardinality(InParse(h)) <= kMaxTperS

\* A host's pool is exhausted by threads in parse while a feed waits for a permit.
C1_Witness ==
  \E h \in Hosts, f \in Feeds :
    /\ Cardinality(InParse(h)) = kMaxTperS
    /\ fpc[f] = "hostWait"
    /\ getURLServer(articles[f][fi[f] + 1]) = h
    /\ serverlocks[h] = 0

\* C2: at any moment at most kMaxthread article threads, all feeds and hosts
\* together, are between threadsAllowed.wait() and threadsAllowed.signal().
C2_GlobalCap == Cardinality(InFlight) <= kMaxthread

\* The global pool is exhausted and a further article thread waits for it.
C2_Witness ==
  /\ Cardinality(InFlight) = kMaxthread
  /\ threadsAllowed = 0
  /\ \E t \in Threads : apc[t] = "wait"

\* C3: at most kMaxfeed feed threads are inside rssfeed.parse(); every feed
\* thread inside it holds a feed permit taken by main before the thread was
\* created and given back only after the parse returned or threw.
C3_FeedCap ==
  /\ Cardinality(FeedsParsing) <= kMaxfeed
  /\ feedsAllowed + FeedPermitsHeld = kMaxfeed

\* The feed pool is exhausted by parsing feeds while main waits to start another.
C3_Witness ==
  /\ Cardinality(FeedsParsing) = kMaxfeed
  /\ mainpc = "feedWait"
  /\ feedsAllowed = 0

\* The submissions index.add has to have received for url: the article threads
\* whose fetch succeeded.
Submissions(url) == {t \in Threads : fetch[t] = "ok" /\ ArticleOf(t) = url}

\* C4: when the crawl has completed, index.add was called exactly once for every
\* article of a successfully parsed feed whose fetch succeeded and for no other
\* article, every article of such a feed was fetched, and the count of every
\* (token, url) is the sum of the token's occurrences over those submissions.
C4_ExactlyOnce ==
  QueryPhase =>
    /\ \A f \in 1..nfeeds : FeedFinished(f)
    /\ \A t \in Threads :
         IF t[1] <= nfeeds /\ fpc[t[1]] = "done" /\ t[2] <= Len(articles[t[1]])
         THEN /\ fetch[t] \in {"ok", "fail"}
              /\ addCalls[t] = (IF fetch[t] = "ok" THEN 1 ELSE 0)
         ELSE /\ fetch[t] = "none"
              /\ addCalls[t] = 0
    /\ \A k \in Tokens, u \in Urls :
         index[k][u] = Cardinality(Submissions(u)) * Occurrences(k, getTokens(u))

\* The crawl completed with one article listed by two feeds and fetched for both,
\* and with another article whose fetch failed.
C4_Witness ==
  /\ QueryPhase
  /\ \E t1 \in Threads, t2 \in Threads :
       /\ t1[1] # t2[1]
       /\ fetch[t1] = "ok" /\ fetch[t2] = "ok"
       /\ ArticleOf(t1) = ArticleOf(t2)
       /\ index[2][ArticleOf(t1)] = 2 * Occurrences(2, getTokens(ArticleOf(t1)))
  /\ \E t \in Threads : fetch[t] = "fail"

\* C5: under fair scheduling, once the feed list has been parsed the crawl
\* finishes and main reaches the prompt of the query loop, whatever feeds and
\* articles fail.
C5_ReachesQuery == CrawlRunning ~> (mainpc = "prompt")

\* Main is at the prompt after a crawl in which every feed failed; the index is empty.
C5_Witness ==
  /\ mainpc = "prompt"
  /\ nfeeds = MaxFeeds
  /\ \A f \in Feeds : fpc[f] = "aborted"
  /\ \A k \in Tokens, u \in Urls : index[k][u] = 0

\* What each kind of live thread can be blocked on.
MainBlocked ==
  \/ mainpc = "feedWait" /\ feedsAllowed = 0
  \/ mainpc = "join" /\ \E f \in 1..nfeeds : ~FeedFinished(f)
FeedLive(f) == fpc[f] \notin {"none", "done", "aborted"}
FeedBlocked(f) ==
  \/ fpc[f] = "maplock" /\ servermaplock # 0
  \/ fpc[f] = "hostWait" /\ serverlocks[getURLServer(articles[f][fi[f] + 1])] = 0
  \/ fpc[f] = "join" /\ \E i \in 1..fi[f] : ~ArticleFinished(<<f, i>>)
ArticleLive(t) == apc[t] \notin {"none", "done", "aborted"}
ArticleBlocked(t) ==
  \/ apc[t] = "wait" /\ threadsAllowed = 0
  \/ apc[t] = "lock" /\ rssindexlock # NoThread

\* C6: while the crawl is unfinished, some live thread is not blocked on a permit
\* pool, a mutex or a join.
C6_NoDeadlock ==
  CrawlRunning =>
    \/ ~MainBlocked
    \/ \E f \in Feeds : FeedLive(f) /\ ~FeedBlocked(f)
    \/ \E t \in Threads : ArticleLive(t) /\ ~ArticleBlocked(t)

\* Main waits in its join, a feed thread waits for a host permit held by an
\* article thread, and another article thread waits for the index lock.
C6_Witness ==
  /\ MainBlocked
  /\ \E f \in Feeds : fpc[f] = "hostWait" /\ FeedBlocked(f)
  /\ \E t \in Threads : apc[t] = "lock" /\ ArticleBlocked(t)

\* C7: a feed thread that has returned after a successful parse has created a
\* thread for every one of its articles and each of them has finished; a feed
\* thread that aborted created none.
C7_FeedAfterArticles ==
  \A f \in Feeds :
    /\ fpc[f] = "done" =>
         /\ fi[f] = Len(articles[f])
         /\ \A i \in 1..Len(articles[f]) : ArticleFinished(<<f, i>>)
    /\ fpc[f] = "aborted" => \A i \in Slots : apc[<<f, i>>] = "none"

\* A feed thread returned after one of its articles was indexed and another failed,
\* while the other feed thread is still running.
C7_Witness ==
  \E f \in Feeds, g \in Feeds :
    /\ fpc[f] = "done"
    /\ \E i \in 1..Len(articles[f]) : apc[<<f, i>>] = "done"
    /\ \E i \in 1..Len(articles[f]) : apc[<<f, i>>] = "aborted"
    /\ FeedLive(g)

\* C8: from the moment main is in the query loop no feed or article thread is
\* running, the index lock is free, and no step changes the index or makes an
\* index.add call.
C8_QueryAfterCrawl ==
  [][QueryPhase =>
       /\ \A f \in Feeds : ~FeedLive(f)
       /\ \A t \in Threads : ~ArticleLive(t)
       /\ rssindexlock = NoThread
       /\ index' = index
       /\ addCalls' = addCalls]_vars

\* A term has been looked up in an index that the crawl filled.
C8_Witness ==
  /\ mainpc = "prompt"
  /\ response = <<2>>
  /\ \E u \in Urls : index[2][u] > 0

\* C9: once the fetch of an article thread has failed, the thread's steps are
\* exactly the release of its global permit and then of its host permit, after
\* which it has ended; they leave the index, the locks, the feed pool and every
\* other thread as they were, and the thread never calls index.add.
C9_ArticleFailure ==
  [][\A t \in Threads :
       /\ (fetch[t] = "fail" /\ apc'[t] # apc[t]) =>
            /\ index' = index /\ addCalls' = addCalls /\ fetch' = fetch
            /\ \A u \in Threads \ {t} : apc'[u] = apc[u]
            /\ fpc' = fpc /\ fi' = fi /\ articles' = articles
            /\ mainpc' = mainpc /\ mi' = mi
            /\ feedsAllowed' = feedsAllowed
            /\ servermaplock' = servermaplock /\ rssindexlock' = rssindexlock
            /\ \/ /\ apc[t] = "failSigT" /\ apc'[t] = "failSigH"
                  /\ threadsAllowed' = threadsAllowed + 1
                  /\ serverlocks' = serverlocks
               \/ /\ apc[t] = "failSigH" /\ apc'[t] = "aborted"
                  /\ threadsAllowed' = threadsAllowed
                  /\ serverlocks' = [serverlocks EXCEPT ![HostOf(t)] = @ + 1]
       /\ apc'[t] = "aborted" => (fetch'[t] = "fail" /\ addCalls'[t] = 0)]_vars

\* An article thread ended after a failed fetch, with its host's pool full again
\* and the index untouched by it, while a sibling of the same feed is running.
C9_Witness ==
  \E t \in Threads, u \in Threads :
    /\ apc[t] = "aborted"
    /\ serverlocks[HostOf(t)] = kMaxTperS
    /\ u # t /\ u[1] = t[1]
    /\ apc[u] \in {"parse", "lock", "add"}

\* C10: a feed thread whose parse failed only gives its feed permit back and
\* ends: it has no articles, creates no article thread, takes no host or global
\* permit, creates no host pool and does not touch the index; and when the
\* crawl has completed every feed of the list was started and has finished.
C10_FeedFailure ==
  /\ [](\A f \in Feeds : fpc[f] \in {"sigFail", "aborted"} =>
          /\ articles[f] = << >> /\ fi[f] = 0
          /\ \A i \in Slots : apc[<<f, i>>] = "none")
  /\ [](QueryPhase => (mi = nfeeds /\ \A f \in 1..nfeeds : FeedFinished(f)))
  /\ [][\A f \in Feeds : (fpc[f] = "sigFail" /\ fpc'[f] # fpc[f]) =>
          /\ fpc'[f] = "aborted"
          /\ feedsAllowed' = feedsAllowed + 1
          /\ threadsAllowed' = threadsAllowed /\ serverlocks' = serverlocks
          /\ servermaplock' = servermaplock
          /\ apc' = apc /\ indexVars' = indexVars]_vars

\* The first feed failed and ended; the second was started afterwards and indexed
\* an article.
C10_Witness ==
  /\ MaxFeeds >= 2
  /\ fpc[1] = "aborted"
  /\ feedsAllowed = kMaxfeed
  /\ fpc[2] = "done"
  /\ addCalls[<<2, 1>>] = 1

\* C11: when the parse of the feed list fails the crawl never starts: main has
\* taken no feed permit and created no feed thread, no article thread exists,
\* index.add was not called and the index is empty; the process has ended with
\* status 0 and takes no further step, so the query loop is never entered.
C11_ListFailure ==
  /\ [](listFailed =>
          /\ mainpc = "exited" /\ exitStatus = 0
          /\ mi = 0 /\ feedsAllowed = kMaxfeed
          /\ \A f \in Feeds : fpc[f] = "none"
          /\ \A t \in Threads : apc[t] = "none" /\ addCalls[t] = 0
          /\ \A k \in Tokens, u \in Urls : index[k][u] = 0)
  /\ [][~listFailed /\ mainpc # "exited"]_vars

\* The parse of the feed list has failed.
C11_Witness == listFailed /\ mainpc = "exited"

\* Article threads between rssindexlock.lock() and rssindexlock.unlock(): the
\* threads executing index.add.
InAdd == {t \in Threads : apc[t] = "add"}

\* C12: at any moment at most one article thread is executing index.add, and
\* it is the holder of rssindexlock; every change of the index is one whole
\* call, the token sequence of the holder's article applied in a single step
\* that no other add can interleave with.
C12_AddExclusive ==
  /\ [](Cardinality(InAdd) <= 1)
  /\ [](\A t \in Threads : t \in InAdd <=> rssindexlock = t)
  /\ [][index' # index =>
         \E t \in InAdd :
           /\ rssindexlock = t /\ rssindexlock' = NoThread
           /\ index' = IndexAdd(index, ArticleOf(t), getTokens(ArticleOf(t)))
           /\ addCalls' = [addCalls EXCEPT ![t] = @ + 1]
           /\ \A u \in Threads \ {t} : apc'[u] = apc[u]]_vars

\* One article thread is executing index.add while another, its fetch done
\* too, waits for rssindexlock.
C12_Witness ==
  \E t \in Threads, u \in Threads :
    /\ apc[t] = "add" /\ rssindexlock = t
    /\ apc[u] = "lock"

\* C13: every progress line of the crawl (the begin and the end line of a feed,
\* the two lines of an article) is written while its task owns cout for the
\* whole line: no line of cout holds writes of more than one task.
C13_LinesExclusive == ~garbled /\ Cardinality(coutLine) <= 1

\* What the locked lines do achieve: a line finished by an article thread or by
\* the end line of a feed holds writes of another task only if a feed thread
\* had left its begin line unfinished on cout.
C13_OnlyBeginBreaks ==
  [][garbled' /\ ~garbled =>
       \E f \in Feeds : fpc[f] = "beginUrl" /\ FeedTask(f) \in coutLine]_vars

\* C14: when the crawl has completed, whatever feeds and articles failed, every
\* permit taken has been given back: feedsAllowed holds kMaxfeed permits again,
\* threadsAllowed kMaxthread, and every semaphore of serverlocks kMaxTperS.
C14_PoolsRestored ==
  QueryPhase =>
    /\ feedsAllowed = kMaxfeed
    /\ threadsAllowed = kMaxthread
    /\ \A h \in Hosts : serverlocks[h] \in {NoPool, kMaxTperS}

\* The crawl has completed after a feed failed, an article of another feed
\* failed and a third article was indexed; the hosts of both have a semaphore.
C14_Witness ==
  /\ mainpc = "prompt"
  /\ \E f \in Feeds : fpc[f] = "aborted"
  /\ \E t \in Threads, u \in Threads :
       /\ apc[t] = "aborted" /\ apc[u] = "done"
       /\ HostOf(t) # HostOf(u)
       /\ serverlocks[HostOf(t)] = kMaxTperS
       /\ serverlocks[HostOf(u)] = kMaxTperS

\* The articles in which the word term occurs, by the index as it is.
Matching(term) ==
  {u \in Urls : Len(term) = 1 /\ index[term[1]][u] > 0}

Min(a, b) == IF a < b THEN a ELSE b

\* C15: every line read at the prompt either is empty after trimming and ends
\* the loop, or is a term that is looked up, after which main is at the prompt
\* again: with n >= 1 matches the total reported is n and the entries listed
\* are the first min(n, kMaxMatchesToShow) elements of the sequence the index
\* returned, in its order, ranked 1, 2, ...; with no match nothing is listed.
C15_QueryDisplay ==
  [][mainpc = "prompt" =>
       \/ /\ response' = << >>
          /\ mainpc' = "done"
          /\ total' = total /\ shown' = shown
       \/ /\ response' # << >>
          /\ mainpc' = "prompt"
          /\ LET matches == getMatchingArticles(index, response')
                 n == Cardinality(Matching(response'))
             IN  /\ Len(matches) = n
                 /\ total' = n
                 /\ Len(shown') = Min(n, kMaxMatchesToShow)
                 /\ \A i \in 1..Len(shown') :
                      shown'[i] = <<i, matches[i][1], matches[i][2]>>]_vars

\* A term with more matches than are listed has been looked up.
C15_Witness ==
  /\ mainpc = "prompt"
  /\ response # << >>
  /\ total > kMaxMatchesToShow
  /\ Len(shown) = kMaxMatchesToShow

\* A term with no match has been looked up in an index that is not empty.
C15_WitnessNone ==
  /\ mainpc = "prompt"
  /\ response # << >>
  /\ total = 0 /\ shown = << >>
  /\ \E k \in Tokens, u \in Urls : index[k][u] > 0

\* The host of the article a feed thread in its loop is dealing with.
CurrentHost(f) == getURLServer(articles[f][fi[f] + 1])

\* C16: servermaplock is held by a feed thread exactly while it is between
\* lock() and unlock(), at the lookup-or-create of a host's semaphore; main and
\* the article threads never hold it, nor does a feed thread at the wait on a
\* host's semaphore; and a feed thread that wants the lock can take it at once
\* or its holder can release it at once, whatever semaphores are exhausted.
C16_MapLockScope ==
  /\ servermaplock \in {0} \cup Feeds
  /\ \A f \in Feeds : servermaplock = f <=> fpc[f] = "lookup"
  /\ \A f \in Feeds : fpc[f] = "hostWait" => servermaplock # f
  /\ \A g \in Feeds :
       fpc[g] = "maplock" =>
         ENABLED (FeedMapLock(g) \/ \E f \in Feeds : FeedLookup(f))

\* A feed thread waits on the exhausted semaphore of one host while another
\* feed thread holds servermaplock for the lookup of another host.
C16_Witness ==
  \E f \in Feeds, g \in Feeds :
    /\ fpc[f] = "hostWait" /\ serverlocks[CurrentHost(f)] = 0
    /\ fpc[g] = "lookup" /\ servermaplock = g
    /\ CurrentHost(g) # CurrentHost(f)

\* The positions at which an article thread holds the permit of its host's
\* semaphore that its feed thread took for it.
HoldsHost ==
  {"wait", "parse", "lock", "add", "sigT", "sigH", "failSigT", "failSigH"}

\* Permits of host h's semaphore taken and not yet given back: by the article
\* threads of that host, of whatever feed, and by the feed threads that have
\* waited on it and are about to create the thread.
HostPermitsOut(h) ==
  Cardinality({t \in Threads : apc[t] \in HoldsHost /\ HostOf(t) = h})
  + Cardinality({f \in Feeds : fpc[f] = "spawn" /\ CurrentHost(f) = h})

\* C17: a host's entry of serverlocks, once it holds a semaphore, holds it for
\* good; the semaphore is created with kMaxTperS permits by a feed thread that
\* holds servermaplock and looks the host up while there is none, and a lookup
\* that finds one leaves it as it is; every article of the host, of whatever
\* feed, takes its permit from and gives it back to that one semaphore.
C17_OnePoolPerHost ==
  /\ [](\A h \in Hosts :
          serverlocks[h] # NoPool =>
            serverlocks[h] + HostPermitsOut(h) = kMaxTperS)
  /\ [](\A h \in Hosts : serverlocks[h] = NoPool => HostPermitsOut(h) = 0)
  /\ [][\A h \in Hosts :
         /\ serverlocks[h] # NoPool => serverlocks'[h] # NoPool
         /\ (serverlocks[h] = NoPool /\ serverlocks'[h] # NoPool) =>
              /\ serverlocks'[h] = kMaxTperS
              /\ \E f \in Feeds : /\ fpc[f] = "lookup" /\ servermaplock = f
                                  /\ CurrentHost(f) = h
                                  /\ fpc'[f] = "hostWait"
         /\ (serverlocks[h] # NoPool /\ \E f \in Feeds : fpc[f] = "lookup"
                                                       /\ fpc'[f] # fpc[f]) =>
              serverlocks'[h] = serverlocks[h]]_vars

\* An article thread of one feed holds the only permit of its host while the
\* thread of another feed, after its own lookup of the same host, waits on the
\* same semaphore.
C17_Witness ==
  \E t \in Threads, g \in Feeds :
    /\ apc[t] = "parse" /\ t[1] # g
    /\ fpc[g] = "hostWait" /\ CurrentHost(g) = HostOf(t)
    /\ serverlocks[HostOf(t)] = 0

\* How far an article thread has come in articletoTokens.
ArtRank(pc) ==
  CASE pc = "none" -> 0 [] pc = "wait" -> 1 [] pc = "parse" -> 2
    [] pc = "lock" -> 3 [] pc = "add" -> 4 [] pc = "sigT" -> 5
    [] pc = "sigH" -> 6 [] pc = "ret" -> 7 [] pc = "done" -> 8
    [] pc = "failSigT" -> 5 [] pc = "failSigH" -> 6 [] pc = "failRet" -> 7
    [] pc = "aborted" -> 8

\* C18: the permits available in feedsAllowed, threadsAllowed and every host's
\* semaphore never exceed the capacity, each count being the capacity less the
\* permits held; every signal is made by a thread that holds a permit of that
\* semaphore, taken by the matching wait (for a host's semaphore: the wait of
\* the feed thread before it created the article thread), and moves the thread
\* past the signal for good, so that no thread signals a semaphore twice.
C18_SignalMatchesWait ==
  /\ [](/\ feedsAllowed \in 0..kMaxfeed
        /\ threadsAllowed \in 0..kMaxthread
        /\ \A h \in Hosts : serverlocks[h] \in {NoPool} \cup 0..kMaxTperS)
  /\ [](/\ feedsAllowed + FeedPermitsHeld = kMaxfeed
        /\ threadsAllowed + Cardinality(InFlight) = kMaxthread
        /\ \A h \in Hosts : serverlocks[h] # NoPool =>
               serverlocks[h] + HostPermitsOut(h) = kMaxTperS)
  /\ [][/\ \A t \in Threads :
             apc'[t] # apc[t] => ArtRank(apc'[t]) > ArtRank(apc[t])
        /\ \A h \in Hosts :
             (serverlocks[h] # NoPool /\ serverlocks'[h] > serverlocks[h]) =>
               /\ serverlocks'[h] = serverlocks[h] + 1
               /\ \E t \in Threads :
                    /\ apc[t] \in {"sigH", "failSigH"} /\ HostOf(t) = h
                    /\ apc'[t] \notin HoldsHost
        /\ threadsAllowed' > threadsAllowed =>
             /\ threadsAllowed' = threadsAllowed + 1
             /\ \E t \in Threads : /\ apc[t] \in {"sigT", "failSigT"}
                                   /\ apc'[t] \in {"sigH", "failSigH"}
        /\ feedsAllowed' > feedsAllowed =>
             /\ feedsAllowed' = feedsAllowed + 1
             /\ \E f \in Feeds : /\ fpc[f] \in {"sigOk", "sigFail"}
                                 /\ fpc'[f] \notin {"sigOk", "sigFail"}]_vars

\* An article thread has given back the permit of its host, whose semaphore is
\* full again, and has ended; its feed had waited on that semaphore for it.
C18_Witness ==
  \E t \in Threads :
    /\ apc[t] = "done"
    /\ serverlocks[HostOf(t)] = kMaxTperS
    /\ threadsAllowed = kMaxthread
    /\ fpc[t[1]] = "join"

\* Article threads of host h that exist: created and not yet ended.
ThreadsAlive(h) == {t \in Threads : ArticleLive(t) /\ HostOf(t) = h}

\* Article threads of host h that hold a permit of its semaphore.
ThreadsHolding(h) == {t \in Threads : apc[t] \in HoldsHost /\ HostOf(t) = h}

\* C19 as stated: for every host at most kMaxTperS article threads have been
\* created and have not yet ended, and every article thread that exists holds
\* a permit of its host's semaphore.
C19_AliveCap ==
  \A h \in Hosts :
    /\ Cardinality(ThreadsAlive(h)) <= kMaxTperS
    /\ ThreadsAlive(h) \subseteq ThreadsHolding(h)

\* C19, amended: the feed thread takes the permit of the host before it creates
\* the article thread, and the thread holds it from its creation until its own
\* up->signal(): for every host at most kMaxTperS article threads have been
\* created and have not yet made that signal (those waiting for threadsAllowed
\* included), and an article thread without the permit is one that has made
\* the signal and is about to end.
C19_PermitUntilSignal ==
  /\ [](\A h \in Hosts :
          /\ Cardinality(ThreadsHolding(h)) <= kMaxTperS
          /\ serverlocks[h] # NoPool =>
               serverlocks[h] + HostPermitsOut(h) = kMaxTperS
          /\ \A t \in ThreadsAlive(h) \ ThreadsHolding(h) :
               apc[t] \in {"ret", "failRet"})
  /\ [][\A t \in Threads :
         /\ (apc[t] = "none" /\ apc'[t] # "none") =>
              /\ apc'[t] = "wait"
              /\ fpc[t[1]] = "spawn" /\ t[2] = fi[t[1]] + 1
              /\ serverlocks' = serverlocks
              /\ serverlocks[CurrentHost(t[1])] < kMaxTperS
         /\ (apc[t] \in HoldsHost /\ apc'[t] \notin HoldsHost) =>
              /\ apc[t] \in {"sigH", "failSigH"}
              /\ serverlocks' =
                   [serverlocks EXCEPT ![HostOf(t)] = @ + 1]]_vars

\* An article thread has signalled its host's semaphore and has not ended yet,
\* while the next article thread of the same host, created with the permit it
\* gave back, is already running.
C19_Witness ==
  \E t \in Threads, u \in Threads :
    /\ apc[t] \in {"ret", "failRet"}
    /\ apc[u] \in HoldsHost
    /\ HostOf(u) = HostOf(t)
    /\ Cardinality(ThreadsAlive(HostOf(t))) > kMaxTperS

\* The threads at a wait on a semaphore: main on feedsAllowed, a feed thread on
\* a host's semaphore, an article thread on threadsAllowed.
MainAtWait == mainpc = "feedWait"
FeedsAtWait == {f \in Feeds : fpc[f] = "hostWait"}
ArticlesAtWait == {t \in Threads : apc[t] = "wait"}

\* The positions at which a feed thread holds the feed permit main took for it.
HoldsFeed == {"begin", "beginUrl", "parse", "sigOk", "sigFail"}

\* C20: every permit out of a semaphore is held by a thread between the wait
\* and the signal for it; of the threads at a wait on a semaphore, main and the
\* feed threads hold no permit and no lock, and an article thread at the wait
\* on threadsAllowed holds the permit of its host and nothing else. So the
\* permit of the host is always taken before the global one, and nothing is
\* ever held at a wait but that host permit: no global permit, no feed permit,
\* neither servermaplock nor rssindexlock.
C20_HostThenGlobal ==
  /\ [](/\ kMaxfeed - feedsAllowed =
             Cardinality({f \in Feeds : fpc[f] \in HoldsFeed})
               + (IF mainpc = "feedSpawn" THEN 1 ELSE 0)
        /\ kMaxthread - threadsAllowed = Cardinality(InFlight)
        /\ \A h \in Hosts : serverlocks[h] # NoPool =>
               kMaxTperS - serverlocks[h] = HostPermitsOut(h))
  /\ [](/\ MainAtWait => mainpc # "feedSpawn"
        /\ \A f \in FeedsAtWait :
             /\ fpc[f] \notin HoldsFeed \cup {"spawn"}
             /\ servermaplock # f
        /\ \A t \in ArticlesAtWait :
             /\ apc[t] \in HoldsHost
             /\ t \notin InFlight
             /\ rssindexlock # t)
  /\ [](/\ servermaplock \in {0} \cup Feeds
        /\ rssindexlock \in {NoThread} \cup Threads)
  /\ [][/\ threadsAllowed' < threadsAllowed =>
             \E t \in ArticlesAtWait : apc'[t] = "parse"
        /\ feedsAllowed' < feedsAllowed => MainAtWait /\ mainpc' = "feedSpawn"
        /\ \A h \in Hosts :
             (serverlocks[h] # NoPool /\ serverlocks'[h] < serverlocks[h]) =>
               \E f \in FeedsAtWait :
                 CurrentHost(f) = h /\ fpc'[f] = "spawn"]_vars

\* The hold-and-wait of the crawl: an article thread holds the only permit of
\* its host and waits for threadsAllowed, which is exhausted by two threads of
\* other hosts, one of them holding rssindexlock.
C20_Witness ==
  \E t \in ArticlesAtWait :
    /\ threadsAllowed = 0
    /\ serverlocks[HostOf(t)] = 0
    /\ rssindexlock \in InFlight
    /\ \A u \in InFlight : HostOf(u) # HostOf(t)

====
